---------------------------- MODULE Spec2Model ----------------------------
(***************************************************************************)
(* pg_binmapper: a per-backend cache of fixed-width binary layouts, keyed  *)
(* by relation Oid, and the decoder parse_binary_payload that reads a     *)
(* big-endian payload against the cached layout.                          *)
(*                                                                         *)
(* The backend is one single-threaded process.  The relcache callback     *)
(* invalidate_layout_cache runs between calls and inside table_open       *)
(* (which accepts pending invalidation messages), so get_or_create_layout *)
(* is modelled in two steps around that point.  The host is little-endian *)
(* (memcpy into the low bytes of a uint64 followed by pg_bswapNN).        *)
(***************************************************************************)
EXTENDS Integers, Sequences, FiniteSets, TLC

(***************************************************************************)
(* Bounds of the model.                                                    *)
(***************************************************************************)
NRels == 2          \* relation Oids 1..NRels
MaxCols == 3        \* columns of a schema in the decode specification
MaxOffsets == 2     \* offsets arrays counted in TopMemoryContext

Rels == 1..NRels

(***************************************************************************)
(* Type Oids the code names, and the pg_type rows the catalog supplies.    *)
(***************************************************************************)
UUIDOID == "uuid"
FLOAT4OID == "float4"

\* Form_pg_attribute fields the code reads: attlen, attbyval, atttypid.
TypeRow(typ) ==
    CASE typ = "bool"    -> [attlen |-> 1,  attbyval |-> TRUE]
      [] typ = "int2"    -> [attlen |-> 2,  attbyval |-> TRUE]
      [] typ = "int4"    -> [attlen |-> 4,  attbyval |-> TRUE]
      [] typ = "int8"    -> [attlen |-> 8,  attbyval |-> TRUE]
      [] typ = "float4"  -> [attlen |-> 4,  attbyval |-> TRUE]
      [] typ = "uuid"    -> [attlen |-> 16, attbyval |-> FALSE]
      [] typ = "macaddr" -> [attlen |-> 6,  attbyval |-> FALSE]
      [] typ = "name"    -> [attlen |-> 64, attbyval |-> FALSE]
      [] typ = "text"    -> [attlen |-> -1, attbyval |-> FALSE]

\* A column of the catalog: a live column of some type, or a dropped one
\* (attisdropped, atttypid zeroed, attlen and attbyval kept).
Col(typ, dropped) == [typ |-> typ, dropped |-> dropped]

\* RelationGetDescr: the attribute at ordinal i (attnum = i, never <= 0 for
\* the columns of a relation descriptor).
Attr(c, i) ==
    [atttypid     |-> IF c.dropped THEN "dropped" ELSE c.typ,
     attlen       |-> TypeRow(c.typ).attlen,
     attbyval     |-> TypeRow(c.typ).attbyval,
     attisdropped |-> c.dropped,
     attnum       |-> i]

RelationGetDescr(cols) == [i \in 1..Len(cols) |-> Attr(cols[i], i)]

(***************************************************************************)
(* Layout builder: the loop of get_or_create_layout.                       *)
(***************************************************************************)
\* Mutant: the dropped flag is not consulted.
AttIsAbsentIgnoresDropped(attr) == attr.attnum <= 0

\* line 67: the column gets the absent marker
AttIsAbsent(attr) == attr.attisdropped \/ attr.attnum <= 0

\* lines 72-73: the column has a width
AttSupported(attr) == attr.attlen > 0 \/ attr.atttypid = UUIDOID

\* lines 72-73: col_len
ColLen(attr) == IF attr.attlen > 0 THEN attr.attlen ELSE 16

\* MemoryContextAllocZero(natts * sizeof(int))
ZeroOffsets(natts) == [i \in 1..natts |-> 0]

\* The loop from column i on.  ok = FALSE is the ereport(ERROR) of line 76,
\* raised at column failedAt with offsets and total as written so far.
RECURSIVE BuildLoop(_, _, _, _)
BuildLoop(td, i, offsets, total) ==
    IF i > Len(td)
    THEN [ok |-> TRUE, offsets |-> offsets, total |-> total, failedAt |-> 0]
    ELSE IF AttIsAbsent(td[i])
    THEN BuildLoop(td, i + 1, [offsets EXCEPT ![i] = -1], total)
    ELSE IF AttSupported(td[i])
    THEN BuildLoop(td, i + 1, [offsets EXCEPT ![i] = total],
                   total + ColLen(td[i]))
    ELSE [ok |-> FALSE, offsets |-> offsets, total |-> total, failedAt |-> i]

BuildLayout(td) == BuildLoop(td, 1, ZeroOffsets(Len(td)), 0)

(***************************************************************************)
(* Bytes and Datums.  A by-value Datum is its 8 bytes, least significant   *)
(* first; a by-reference Datum is the palloc'd block it points to.         *)
(***************************************************************************)
Reverse(s) == [k \in 1..Len(s) |-> s[Len(s) + 1 - k]]

ZeroBytes(n) == [k \in 1..n |-> 0]

pg_bswap64(raw) == Reverse(raw)

\* Mutant: the 4 bytes are taken in payload order.
NoSwap32(raw) == SubSeq(raw, 1, 4) \o ZeroBytes(4)

\* (uint64) pg_bswap32((uint32) raw_val)
pg_bswap32(raw) == Reverse(SubSeq(raw, 1, 4)) \o ZeroBytes(4)

\* (uint64) pg_bswap16((uint16) raw_val)
pg_bswap16(raw) == Reverse(SubSeq(raw, 1, 2)) \o ZeroBytes(6)

\* Float4GetDatum: the float's bits as an int32, widened to a Datum with
\* sign extension (Int32GetDatum).
Float4GetDatum(raw) ==
    SubSeq(raw, 1, 4) \o [k \in 1..4 |-> IF raw[4] >= 128 THEN 255 ELSE 0]

\* The byte of the payload at 0-based index idx; reading outside the payload
\* yields whatever lies there (oob).
ReadByte(payload, idx, oob) ==
    IF idx >= 0 /\ idx < Len(payload) THEN payload[idx + 1] ELSE oob

(***************************************************************************)
(* Decoder: the per-column part of parse_binary_payload.                   *)
(***************************************************************************)
\* Mutant: only a payload that is too long is rejected.
SizeOnlyLonger(input_size, total) == input_size > total

\* line 112: the size check fails
SizeMismatch(input_size, total) == input_size # total

\* line 131: len
FieldLen(attr) == IF attr.attlen > 0 THEN attr.attlen ELSE 16

\* line 135: the number of bytes memcpy moves into raw_val
ScalarCopyLen(len) == IF len <= 8 THEN len ELSE 8

\* line 152: the number of bytes memcpy moves into the palloc'd block
BlockCopyDatum(attr) == 8

BlockCopyLen(attr) == 16

\* lines 137-139: the byte swap chosen by len
SwapByLen(raw, len) ==
    CASE len = 8 -> pg_bswap64(raw)
      [] len = 4 -> pg_bswap32(raw)
      [] len = 2 -> pg_bswap16(raw)
      [] OTHER   -> raw

\* lines 141-149: the Datum stored for a by-value column
ScalarDatum(attr, raw) ==
    IF attr.atttypid = FLOAT4OID THEN Float4GetDatum(raw) ELSE raw

\* lines 130-155: one present column at byte offset off.  value is the
\* Datum, reads the set of 0-based payload indices read.
DecodeField(attr, off, payload, oob) ==
    LET len == FieldLen(attr) IN
    IF attr.attbyval
    THEN LET n   == ScalarCopyLen(len)
             raw == [k \in 1..8 |-> IF k <= n
                                    THEN ReadByte(payload, off + k - 1, oob)
                                    ELSE 0]
         IN [value |-> ScalarDatum(attr, SwapByLen(raw, len)),
             reads |-> {off + k - 1 : k \in 1..n}]
    ELSE LET n == BlockCopyLen(attr)
         IN [value |-> [k \in 1..n |-> ReadByte(payload, off + k - 1, oob)],
             reads |-> {off + k - 1 : k \in 1..n}]

\* Mutant: the zero of a fresh offsets array is taken for the marker.
OffsetIsZero(off) == off = 0

\* line 125: the column is skipped and its null flag set
OffsetIsAbsent(off) == off = -1

\* lines 117-156: values, nulls and the bytes read, one entry per column.
DecodeColumns(td, offsets, payload, oob) ==
    LET f(i) == DecodeField(td[i], offsets[i], payload, oob) IN
    [values |-> [i \in 1..Len(td) |->
                    IF OffsetIsAbsent(offsets[i]) THEN ZeroBytes(8)
                    ELSE f(i).value],
     nulls  |-> [i \in 1..Len(td) |-> OffsetIsAbsent(offsets[i])],
     reads  |-> [i \in 1..Len(td) |->
                    IF OffsetIsAbsent(offsets[i]) THEN {} ELSE f(i).reads]]

\* Whether the decode of this layout reads outside the payload.
ReadsOutside(td, offsets, payload) ==
    \E i \in 1..Len(td) :
        \E x \in DecodeColumns(td, offsets, payload, 0).reads[i] :
            x < 0 \/ x >= Len(payload)

(***************************************************************************)
(* State of the backend and of its environment.                            *)
(***************************************************************************)
VARIABLES
    catalog,    \* schema catalog: relation -> Rel(columns), or NoRel
    hashtab,    \* layout_cache: relation -> element holding its entry, or 0
    freeList,   \* dynahash free list of elements, most recently freed first
    slot,       \* element memory: the TableBinaryLayout stored in each element
    pc,         \* "idle", or "open": inside get_or_create_layout at table_open
    cur,        \* the call in flight: table_oid, payload, layout pointer
    res,        \* outcome of the call that completed in the last step, if one did
    wire,       \* decode specification: the payload under test
    vals,       \* decode specification: the values the payload encodes
    inv,        \* history: invalidate(r) ran and no lookup of r started since
    pub,        \* history: a build of r completed in the cache, not invalidated since
    unsup,      \* history: the last build of r raised UnsupportedType, schema unchanged since
    topOffsets  \* offsets arrays allocated in TopMemoryContext and not freed,
                \* counted up to MaxOffsets

vars == <<catalog, hashtab, freeList, slot, pc, cur, res, wire, vals,
          inv, pub, unsup, topOffsets>>

Slots == 1..NRels       \* elements the table can ever hand out
\* A catalog entry: the columns of a relation, or no such relation.
Rel(cols) == [exists |-> TRUE, cols |-> cols]

NoRel == [exists |-> FALSE, cols |-> <<>>]

\* The schemas relations take in the cache specification.
MainSchemas ==
    { Rel(<<Col("int2", FALSE)>>),
      Rel(<<Col("int2", FALSE), Col("int4", TRUE), Col("int2", FALSE)>>),
      Rel(<<Col("int2", FALSE), Col("text", FALSE)>>) }

\* Payload of n bytes with recognisable content.
Ramp(n) == [k \in 1..n |-> (k * 17) % 256]

\* Payloads of the cache specification.
Payloads == { Ramp(n) : n \in {3, 4} }

\* Values a byte read outside the payload can have.
OobBytes == {0, 170}

\* A pointer field of an element that was never written, or a descriptor.
WildDesc == [cols |-> <<>>, mem |-> "wild"]

\* Memory of an element fresh from element_alloc: not initialised.  The key
\* field relid is what hashtab records; the code never reads it back.
GarbageEntry(v, t) ==
    [tupdesc |-> WildDesc, offsets |-> <<>>,
     total_binary_size |-> t, is_valid |-> v]

\* The int an uninitialised total_binary_size holds: with payloads of 3 and
\* 4 bytes it both fails and passes the size check.
GarbageTotals == {4}

FreshSlots ==
    { [s \in Slots |-> GarbageEntry(v, t)] : v \in BOOLEAN, t \in GarbageTotals }

NoCall == [relid |-> 0, payload |-> <<>>, layout |-> 0,
           afterInv |-> FALSE, mustRebuild |-> FALSE, afterUnsup |-> FALSE]

NoLayout == [cols |-> <<>>, mem |-> "none", offsets |-> <<>>, total |-> -1]

NoRes == [kind |-> "none", relid |-> 0, payload |-> <<>>, hit |-> FALSE,
          layout |-> NoLayout, values |-> <<>>, nulls |-> <<>>, reads |-> <<>>,
          afterInv |-> FALSE, mustRebuild |-> FALSE, afterUnsup |-> FALSE]

\* The layout get_or_create_layout returns, as the caller reads it.
LayoutOf(e) ==
    [cols |-> e.tupdesc.cols, mem |-> e.tupdesc.mem,
     offsets |-> e.offsets, total |-> e.total_binary_size]

\* Mutant: the offsets arrays live in the per-call context as well.
ReleaseAllOffsets(sl) ==
    [s \in Slots |->
        [sl[s] EXCEPT !.tupdesc.mem = IF @ = "live" THEN "freed" ELSE @,
                      !.offsets = <<>>]]

\* The per-call memory context is reset: what was palloc'd in it is freed.
ReleaseAll(sl) ==
    [s \in Slots |->
        [sl[s] EXCEPT !.tupdesc.mem = IF @ = "live" THEN "freed" ELSE @]]

\* _PG_init: an empty table over uninitialised elements.
FreshProcess(ht, fl, sl) ==
    /\ ht = [r \in Rels |-> 0]
    /\ fl = [s \in Slots |-> s]
    /\ sl \in FreshSlots

Init ==
    /\ catalog = [r \in Rels |-> Rel(<<Col("int2", FALSE)>>)]
    /\ FreshProcess(hashtab, freeList, slot)
    /\ pc = "idle"
    /\ cur = NoCall
    /\ res = NoRes
    /\ wire = <<>>
    /\ vals = <<>>
    /\ inv = [r \in Rels |-> FALSE]
    /\ pub = [r \in Rels |-> FALSE]
    /\ unsup = [r \in Rels |-> FALSE]
    /\ topOffsets = 0

(***************************************************************************)
(* dynahash, as the code uses it.                                          *)
(***************************************************************************)
\* hash_search(layout_cache, &relid, HASH_ENTER, &found): the entry of relid,
\* or the head of the free list with only its key written.
HashEnter(ht, fl, sl, relid) ==
    IF ht[relid] # 0
    THEN [found |-> TRUE, elem |-> ht[relid], ht |-> ht, fl |-> fl, sl |-> sl]
    ELSE [found |-> FALSE, elem |-> Head(fl),
          ht |-> [ht EXCEPT ![relid] = Head(fl)],
          fl |-> Tail(fl),
          sl |-> sl]

\* Mutant: the callback leaves the entry in the table.
HashRemoveKeeps(ht, fl, relid) == [ht |-> ht, fl |-> fl]

\* Mutant: the callback empties the table.
HashRemoveAll(ht, fl, relid) ==
    [ht |-> [r \in Rels |-> 0], fl |-> [s \in Slots |-> s]]

\* Mutant: the callback leaves the table alone while a build is in flight.
HashRemoveDeferred(ht, fl, relid) ==
    IF ht[relid] # 0 /\ pc # "open"
    THEN [ht |-> [ht EXCEPT ![relid] = 0], fl |-> <<ht[relid]>> \o fl]
    ELSE [ht |-> ht, fl |-> fl]

\* hash_search(layout_cache, &relid, HASH_REMOVE, NULL): the element goes to
\* the head of the free list with its contents as they are.
HashRemove(ht, fl, relid) ==
    IF ht[relid] # 0
    THEN [ht |-> [ht EXCEPT ![relid] = 0], fl |-> <<ht[relid]>> \o fl]
    ELSE [ht |-> ht, fl |-> fl]

\* Mutant: an entry that is found is rebuilt all the same.
CacheHitNever(found, e) == FALSE

\* line 47: the cached entry is returned as it is
CacheHit(found, e) == found /\ e.is_valid

(***************************************************************************)
(* parse_binary_payload from line 109 on, with layout = sl[call.layout].   *)
(***************************************************************************)
\* What reading *layout->tupdesc yields: the descriptor, or, for memory that
\* was freed or never set, also garbage or a fault.
DerefOutcomes(mem) ==
    CASE mem = "live"  -> {"ok"}
      [] mem = "freed" -> {"ok", "garbage", "crash"}
      [] OTHER         -> {"garbage", "crash"}

ParseTail(call, hit, ht, fl, sl) ==
    LET e    == sl[call.layout]
        base == [NoRes EXCEPT !.relid = call.relid, !.payload = call.payload,
                              !.hit = hit, !.layout = LayoutOf(e),
                              !.afterInv = call.afterInv,
                              !.mustRebuild = call.mustRebuild,
                              !.afterUnsup = unsup[call.relid]]
    IN
    IF SizeMismatch(Len(call.payload), e.total_binary_size)
    THEN /\ res' = [base EXCEPT !.kind = "SizeMismatch"]
         /\ hashtab' = ht /\ freeList' = fl
         /\ slot' = ReleaseAll(sl)
    ELSE \E out \in DerefOutcomes(e.tupdesc.mem) :
           CASE out = "ok" ->
                  LET td == RelationGetDescr(e.tupdesc.cols) IN
                  \E oob \in IF ReadsOutside(td, e.offsets, call.payload)
                             THEN OobBytes ELSE {0} :
                    LET d == DecodeColumns(td, e.offsets, call.payload, oob) IN
                    /\ res' = [base EXCEPT !.kind = "record",
                                           !.values = d.values,
                                           !.nulls = d.nulls,
                                           !.reads = d.reads]
                    /\ hashtab' = ht /\ freeList' = fl /\ slot' = sl
             [] out = "garbage" ->
                  /\ res' = [base EXCEPT !.kind = "garbage"]
                  /\ hashtab' = ht /\ freeList' = fl /\ slot' = sl
             [] out = "crash" ->
                  /\ res' = [base EXCEPT !.kind = "crash"]
                  /\ FreshProcess(hashtab', freeList', slot')

\* line 60: one more array in TopMemoryContext; nothing ever frees one.
AllocOffsets(n) == IF n < MaxOffsets THEN n + 1 ELSE n

\* History after a completed call; a fault restarts the backend, and with
\* the process its memory goes.
AfterCall(newInv, newPub, newUnsup, newTop) ==
    IF res'.kind = "crash"
    THEN /\ pub' = [r \in Rels |-> FALSE]
         /\ inv' = [r \in Rels |-> FALSE]
         /\ unsup' = newUnsup
         /\ topOffsets' = 0
    ELSE /\ pub' = newPub
         /\ inv' = newInv
         /\ unsup' = newUnsup
         /\ topOffsets' = newTop

(***************************************************************************)
(* Actions.                                                                *)
(***************************************************************************)
\* parse_binary_payload(table_oid, payload) up to table_open (lines 95-52);
\* on a cache hit, the whole call.
ParseLookup(table_oid, payload) ==
    /\ pc = "idle"
    /\ LET h    == HashEnter(hashtab, freeList, slot, table_oid)
           call == [relid |-> table_oid, payload |-> payload, layout |-> h.elem,
                    afterInv |-> inv[table_oid],
                    mustRebuild |-> ~pub[table_oid],
                    afterUnsup |-> FALSE]
       IN IF CacheHit(h.found, h.sl[h.elem])
          THEN /\ ParseTail(call, TRUE, h.ht, h.fl, h.sl)
               /\ AfterCall([inv EXCEPT ![table_oid] = FALSE], pub, unsup,
                            topOffsets)
               /\ UNCHANGED <<pc, cur>>
          ELSE /\ pc' = "open"
               /\ cur' = call
               /\ hashtab' = h.ht /\ freeList' = h.fl /\ slot' = h.sl
               /\ inv' = [inv EXCEPT ![table_oid] = FALSE]
               /\ res' = NoRes
               /\ UNCHANGED <<pub, unsup, topOffsets>>
    /\ UNCHANGED <<catalog, wire, vals>>

BeginParse == \E r \in Rels, p \in Payloads : ParseLookup(r, p)

\* The rest of the call: table_open, the build (lines 52-86), the decode.
FinishParse ==
    /\ pc = "open"
    /\ pc' = "idle"
    /\ cur' = NoCall
    /\ LET r == cur.relid
           s == cur.layout
           failed(kind) ==
               [NoRes EXCEPT !.kind = kind, !.relid = r,
                             !.payload = cur.payload,
                             !.afterInv = cur.afterInv,
                             !.mustRebuild = cur.mustRebuild,
                             !.afterUnsup = unsup[r]]
       IN IF ~catalog[r].exists
          THEN \* table_open raises; the element keeps what it held
               /\ res' = failed("TableNotFound")
               /\ slot' = ReleaseAll(slot)
               /\ UNCHANGED <<hashtab, freeList>>
               /\ AfterCall(inv, pub, unsup, topOffsets)
          ELSE LET td == RelationGetDescr(catalog[r].cols)
                   b  == BuildLayout(td)
                   sl == [slot EXCEPT ![s] =
                            [tupdesc |-> [cols |-> catalog[r].cols, mem |-> "live"],
                             offsets |-> b.offsets,
                             total_binary_size |-> b.total,
                             is_valid |-> IF b.ok THEN TRUE ELSE @.is_valid]]
               IN IF ~b.ok
                  THEN /\ res' = failed("UnsupportedType")
                       /\ slot' = ReleaseAll(sl)
                       /\ UNCHANGED <<hashtab, freeList>>
                       /\ AfterCall(inv, pub, [unsup EXCEPT ![r] = TRUE],
                                    AllocOffsets(topOffsets))
                  ELSE /\ ParseTail(cur, FALSE, hashtab, freeList, sl)
                       /\ AfterCall(inv, [pub EXCEPT ![r] = (hashtab[r] = s)],
                                 [unsup EXCEPT ![r] = FALSE],
                                 AllocOffsets(topOffsets))
    /\ UNCHANGED <<catalog, wire, vals>>

\* invalidate_layout_cache(arg, relid): between calls, or while table_open
\* accepts invalidation messages.
invalidate_layout_cache(relid) ==
    LET h == HashRemove(hashtab, freeList, relid) IN
    /\ hashtab' = h.ht
    /\ freeList' = h.fl
    /\ inv' = [inv EXCEPT ![relid] = TRUE]
    /\ pub' = [pub EXCEPT ![relid] = FALSE]
    /\ res' = NoRes
    /\ UNCHANGED <<catalog, slot, pc, cur, wire, vals, unsup, topOffsets>>

Invalidate == \E r \in Rels : invalidate_layout_cache(r)

\* The catalog changes: columns altered, or the relation dropped or created.
SchemaChange ==
    \E r \in Rels, c \in MainSchemas \cup {NoRel} :
        /\ c # catalog[r]
        /\ catalog' = [catalog EXCEPT ![r] = c]
        /\ unsup' = [unsup EXCEPT ![r] = FALSE]
        /\ res' = NoRes
        /\ UNCHANGED <<hashtab, freeList, slot, pc, cur, wire, vals, inv, pub,
                       topOffsets>>

\* The executor resets the memory context the previous calls ran in.
ResetCallMemory ==
    /\ pc = "idle"
    /\ slot' = ReleaseAll(slot)
    /\ slot' # slot
    /\ res' = NoRes
    /\ UNCHANGED <<catalog, hashtab, freeList, pc, cur, wire, vals,
                   inv, pub, unsup, topOffsets>>

Next ==
    \/ BeginParse
    \/ FinishParse
    \/ Invalidate
    \/ SchemaChange
    \/ ResetCallMemory

Spec == Init /\ [][Next]_vars

(***************************************************************************)
(* Decode specification: one parse_binary_payload call on an empty cache,  *)
(* for every schema of up to MaxCols columns and a payload that encodes    *)
(* sample values of its columns, exact or one byte short or long.          *)
(***************************************************************************)
Types == {"bool", "int2", "int4", "int8", "float4",
          "uuid", "macaddr", "name", "text"}

ColKinds == {Col(t, FALSE) : t \in Types}
              \cup {Col("int4", TRUE), Col("text", TRUE)}

AllSchemas == UNION {[1..n -> ColKinds] : n \in 0..MaxCols}

\* A table of readings: (id int4, ts int8, temp float4, uid uuid).
ReadingSchema ==
    <<Col("int4", FALSE), Col("int8", FALSE), Col("float4", FALSE),
      Col("uuid", FALSE)>>

DecodeSchemas == AllSchemas \cup {ReadingSchema}

\* Sample numbers of 8 bytes are written as <<high 32 bits, low 32 bits>>,
\* each as a signed 32-bit number; floats as sign, exponent and mantissa.
Block(w, k) == [j \in 1..w |-> (k * 61 + j * 7) % 256]

SampleValue(typ, k) ==
    CASE typ = "bool"    -> <<1, 0, 1>>[k + 1]
      [] typ = "int2"    -> <<42, -7, 258>>[k + 1]
      [] typ = "int4"    -> <<42, -7, 16909060>>[k + 1]
      [] typ = "int8"    -> << <<0, 100>>, <<-1, -7>>, <<1, 2>> >>[k + 1]
      [] typ = "float4"  -> << [sign |-> 0, exp |-> 130, mant |-> 7340032],
                               [sign |-> 1, exp |-> 128, mant |-> 6291456],
                               [sign |-> 0, exp |-> 128, mant |-> 6291456] >>[k + 1]
      [] typ = "uuid"    -> Block(16, k)
      [] typ = "macaddr" -> Block(6, k)
      [] typ = "name"    -> Block(64, k)
      [] OTHER           -> <<>>

\* Two's complement bytes of a signed number, most significant first.
BE16(v) == <<(v \div 256) % 256, v % 256>>

BE32(v) == <<(v \div 16777216) % 256, (v \div 65536) % 256,
             (v \div 256) % 256, v % 256>>

\* The wire form of one value: numbers big-endian, blocks as they are.
EncodeBE(typ, v) ==
    CASE typ = "bool"    -> <<v>>
      [] typ = "int2"    -> BE16(v)
      [] typ = "int4"    -> BE32(v)
      [] typ = "int8"    -> BE32(v[1]) \o BE32(v[2])
      [] typ = "float4"  -> <<v.sign * 128 + v.exp \div 2,
                              (v.exp % 2) * 128 + v.mant \div 65536,
                              (v.mant \div 256) % 256,
                              v.mant % 256>>
      [] OTHER           -> v

\* The payload of a row: the wire forms of its live columns, in order.
RECURSIVE EncodeRow(_, _, _)
EncodeRow(cols, values, i) ==
    IF i > Len(cols) THEN <<>>
    ELSE (IF cols[i].dropped THEN <<>> ELSE EncodeBE(cols[i].typ, values[i]))
         \o EncodeRow(cols, values, i + 1)

\* The payload cut or padded by delta bytes.
Resize(p, delta) ==
    CASE delta = 0 -> p
      [] delta > 0 -> p \o <<255>>
      [] OTHER     -> IF Len(p) = 0 THEN p ELSE SubSeq(p, 1, Len(p) - 1)

\* What the Datum of a by-value column means to its reader.
Signed16(lo, hi) == IF hi >= 128 THEN (hi - 256) * 256 + lo ELSE hi * 256 + lo

Signed32(b) ==
    (IF b[4] >= 128 THEN b[4] - 256 ELSE b[4]) * 16777216
        + b[3] * 65536 + b[2] * 256 + b[1]

DatumGetInt16(d) == Signed16(d[1], d[2])

DatumGetInt32(d) == Signed32(SubSeq(d, 1, 4))

DatumGetInt64(d) == <<Signed32(SubSeq(d, 5, 8)), Signed32(SubSeq(d, 1, 4))>>

DatumGetFloat4(d) ==
    [sign |-> d[4] \div 128,
     exp  |-> (d[4] % 128) * 2 + d[3] \div 128,
     mant |-> (d[3] % 128) * 65536 + d[2] * 256 + d[1]]

DatumValue(typ, d) ==
    CASE typ = "bool"   -> d[1]
      [] typ = "int2"   -> DatumGetInt16(d)
      [] typ = "int4"   -> DatumGetInt32(d)
      [] typ = "int8"   -> DatumGetInt64(d)
      [] typ = "float4" -> DatumGetFloat4(d)
      [] OTHER          -> d

InitDecode ==
    /\ \E cols \in DecodeSchemas, seed \in 0..2, delta \in {-1, 0, 1} :
        LET v == [i \in 1..Len(cols) |->
                    SampleValue(cols[i].typ, (seed + i) % 3)]
        IN /\ catalog = [r \in Rels |-> IF r = 1 THEN Rel(cols) ELSE NoRel]
           /\ vals = v
           /\ wire = Resize(EncodeRow(cols, v, 1), delta)
    /\ FreshProcess(hashtab, freeList, slot)
    /\ pc = "idle"
    /\ cur = NoCall
    /\ res = NoRes
    /\ inv = [r \in Rels |-> FALSE]
    /\ pub = [r \in Rels |-> FALSE]
    /\ unsup = [r \in Rels |-> FALSE]
    /\ topOffsets = 0

\* The call under test: parse_binary_payload(1, wire), once.
DecodeBegin ==
    /\ res = NoRes
    /\ hashtab[1] = 0
    /\ ParseLookup(1, wire)

NextDecode ==
    \/ DecodeBegin
    \/ FinishParse

SpecDecode == InitDecode /\ [][NextDecode]_vars

(***************************************************************************)
(* Vocabulary of the properties, stated from the layout contract and not   *)
(* through the builder's operators.                                        *)
(***************************************************************************)
\* The column is a live user column.
Present(attr) == ~attr.attisdropped /\ attr.attnum >= 1

\* The width the contract gives a present column: its fixed width, or 16
\* for the identifier type.
Width(attr) == IF attr.atttypid = "uuid" THEN 16 ELSE attr.attlen

\* The contract can lay the column out.
FixedWidth(attr) == attr.atttypid = "uuid" \/ attr.attlen > 0

\* Sum of the widths of the present columns among the first n.
RECURSIVE PackedSize(_, _)
PackedSize(td, n) ==
    IF n = 0 THEN 0
    ELSE PackedSize(td, n - 1) + (IF Present(td[n]) THEN Width(td[n]) ELSE 0)

\* The layout is the complete layout of its own descriptor.
CompleteLayout(L) ==
    LET td == RelationGetDescr(L.cols) IN
    /\ L.mem # "wild"
    /\ Len(L.offsets) = Len(td)
    /\ \A i \in 1..Len(td) :
          IF Present(td[i])
          THEN FixedWidth(td[i]) /\ L.offsets[i] = PackedSize(td, i - 1)
          ELSE L.offsets[i] = -1
    /\ L.total = PackedSize(td, Len(td))

\* What the cache holds for a relation: whether it has an entry, and the
\* entry's validity, offsets and total size.
CacheEntry(u) ==
    IF hashtab[u] = 0
    THEN [present |-> FALSE, valid |-> FALSE, offsets |-> <<>>, total |-> 0]
    ELSE [present |-> TRUE,
          valid   |-> slot[hashtab[u]].is_valid,
          offsets |-> slot[hashtab[u]].offsets,
          total   |-> slot[hashtab[u]].total_binary_size]

CacheView == [u \in Rels |-> CacheEntry(u)]

\* get_or_create_layout returned to parse_binary_payload in the last step.
Returned == res.layout # NoLayout

(***************************************************************************)
(* C1. Cache coherency: a get_or_build(t) that starts after invalidate(t)  *)
(* has run, with no other lookup of t in between, returns a layout whose   *)
(* columns, offsets and total size are those of the catalog's columns of t *)
(* at that call.                                                           *)
(***************************************************************************)
C1_CacheCoherency ==
    (Returned /\ res.afterInv) =>
        /\ catalog[res.relid].exists
        /\ res.layout.cols = catalog[res.relid].cols
        /\ res.layout.mem = "live"
        /\ CompleteLayout(res.layout)

\* An invalidated table, altered to three columns, is looked up again.
C1_Witness ==
    /\ res.kind = "record"
    /\ res.afterInv
    /\ Len(res.layout.cols) = 3
    /\ res.layout.offsets = <<0, -1, 2>>

(***************************************************************************)
(* C2. Rebuild is all-or-nothing: every layout get_or_build returns, on a  *)
(* hit or after a build, has an offset or the absent marker for every      *)
(* column of its descriptor and a total size equal to the sum of the       *)
(* widths of its present columns.                                          *)
(***************************************************************************)
C2_RebuildAllOrNothing == Returned => CompleteLayout(res.layout)

(***************************************************************************)
(* C3. After a build of t failed with UnsupportedType, every later         *)
(* get_or_build(t) fails with UnsupportedType again for as long as the     *)
(* schema of t is unchanged.                                               *)
(***************************************************************************)
C3_UnsupportedRetries ==
    (res.kind # "none" /\ res.afterUnsup) => res.kind = "UnsupportedType"

(***************************************************************************)
(* C4. A call for t made while no build of t has completed since the last  *)
(* invalidate(t), with t unknown to the catalog, fails with TableNotFound  *)
(* and returns no layout.                                                  *)
(***************************************************************************)
C4_TableNotFound ==
    (res.kind # "none" /\ res.mustRebuild /\ ~catalog[res.relid].exists) =>
        (res.kind = "TableNotFound" /\ ~Returned)

(***************************************************************************)
(* C5. Size-mismatch rejection: when the payload's length differs from the *)
(* total size of the layout the call obtained, the call fails with         *)
(* SizeMismatch, reads no payload byte and emits no field.                 *)
(***************************************************************************)
C5_SizeMismatchRejects ==
    (Returned /\ Len(res.payload) # res.layout.total) =>
        /\ res.kind = "SizeMismatch"
        /\ res.values = <<>>
        /\ res.nulls = <<>>
        /\ res.reads = <<>>

\* A payload one byte short of a complete layout of 4 bytes is rejected.
C5_Witness ==
    /\ res.kind = "SizeMismatch"
    /\ CompleteLayout(res.layout)
    /\ res.layout.total = 4
    /\ Len(res.payload) = 3

(***************************************************************************)
(* C6. The descriptor copy of a cache entry whose build completed stays    *)
(* allocated until the entry is invalidated.                               *)
(***************************************************************************)
C6_CachedLayoutStaysAllocated ==
    \A r \in Rels :
        (pub[r] /\ hashtab[r] # 0) => slot[hashtab[r]].tupdesc.mem = "live"

(***************************************************************************)
(* C7. Offset packing: in every layout a build produces, the first present *)
(* column has offset 0, each next present column starts where the previous *)
(* present column ends, absent columns carry the absent marker, and the    *)
(* total size is the sum of the widths of the present columns.             *)
(***************************************************************************)
C7_OffsetPacking ==
    (Returned /\ ~res.hit) =>
        LET td  == RelationGetDescr(res.layout.cols)
            off == res.layout.offsets
            n   == Len(td)
            P   == {i \in 1..n : Present(td[i])}
        IN /\ Len(off) = n
           /\ \A i \in (1..n) \ P : off[i] = -1
           /\ \A i \in P : (\A k \in P : k >= i) => off[i] = 0
           /\ \A i \in P, j \in P :
                 (i < j /\ \A k \in P : ~(i < k /\ k < j)) =>
                     off[j] = off[i] + Width(td[i])
           /\ (P = {}) => res.layout.total = 0
           /\ \A i \in P : (\A k \in P : k <= i) =>
                 res.layout.total = off[i] + Width(td[i])

\* (int2, dropped, int8): offsets 0, absent, 2 and 10 bytes in all.
C7_Witness ==
    /\ Returned /\ ~res.hit
    /\ res.layout.cols = <<Col("int2", FALSE), Col("int4", TRUE), Col("int8", FALSE)>>
    /\ res.layout.offsets = <<0, -1, 2>>
    /\ res.layout.total = 10

(***************************************************************************)
(* C8. Round trip of fixed-width scalars: for a schema of 2-, 4- and       *)
(* 8-byte numeric columns, the payload that holds each value big-endian at *)
(* its offset decodes to a record whose Datums read back as exactly those  *)
(* values; a float4 reads back bit for bit.                                *)
(***************************************************************************)
NumericTypes == {"int2", "int4", "int8", "float4"}

AllNumeric(cols) ==
    Len(cols) > 0 /\ \A i \in 1..Len(cols) :
        ~cols[i].dropped /\ cols[i].typ \in NumericTypes

C8_RoundTrip ==
    (AllNumeric(catalog[1].cols) /\ res.kind \notin {"none", "SizeMismatch"}) =>
        /\ res.kind = "record"
        /\ Len(res.values) = Len(vals)
        /\ \A i \in 1..Len(vals) :
              /\ ~res.nulls[i]
              /\ DatumValue(catalog[1].cols[i].typ, res.values[i]) = vals[i]

\* int4 = 42, int8 = -7, float4 = 3.5 come back as written.
C8_Witness ==
    /\ res.kind = "record"
    /\ catalog[1].cols = <<Col("int4", FALSE), Col("int8", FALSE), Col("float4", FALSE)>>
    /\ vals = <<42, <<-1, -7>>, [sign |-> 0, exp |-> 128, mant |-> 6291456]>>
    /\ DatumValue("float4", res.values[3]) = vals[3]

(***************************************************************************)
(* C9. A present column of a fixed-width type that is neither by-value nor *)
(* the identifier type, of declared width w, gets as its value exactly the *)
(* w bytes payload[offset .. offset+w-1], and no other byte is read.       *)
(***************************************************************************)
C9_OpaqueBlockVerbatim ==
    res.kind = "record" =>
        LET td == RelationGetDescr(res.layout.cols) IN
        \A i \in 1..Len(td) :
            (Present(td[i]) /\ ~td[i].attbyval /\ td[i].atttypid # "uuid") =>
                LET off == res.layout.offsets[i]
                    w   == td[i].attlen
                IN /\ res.values[i] = SubSeq(res.payload, off + 1, off + w)
                   /\ res.reads[i] = off..(off + w - 1)

(***************************************************************************)
(* C10. For a schema with dropped columns a successful decode emits one    *)
(* field per column ordinal, in order: a null that reads no payload byte   *)
(* for each absent column, and for each present column a value read from   *)
(* the bytes that start at its own packed offset; (int4, dropped, int4)    *)
(* has offsets 0, absent, 4, total size 8 and fields a, null, c.           *)
(***************************************************************************)
C10_DroppedColumns ==
    (res.kind = "record" /\ \E i \in 1..Len(res.layout.cols) : res.layout.cols[i].dropped) =>
        LET cols == res.layout.cols
            td   == RelationGetDescr(cols)
            n    == Len(td)
        IN /\ Len(res.values) = n /\ Len(res.nulls) = n /\ Len(res.reads) = n
           /\ \A i \in 1..n :
                 IF Present(td[i])
                 THEN /\ ~res.nulls[i]
                      /\ res.reads[i] # {}
                      /\ \A x \in res.reads[i] : x >= PackedSize(td, i - 1)
                      /\ PackedSize(td, i - 1) \in res.reads[i]
                      /\ cols[i].typ \in NumericTypes \cup {"bool", "uuid"} =>
                            DatumValue(cols[i].typ, res.values[i]) = vals[i]
                 ELSE /\ res.nulls[i]
                      /\ res.reads[i] = {}
           /\ (cols = <<Col("int4", FALSE), Col("int4", TRUE), Col("int4", FALSE)>>) =>
                 /\ res.layout.offsets = <<0, -1, 4>>
                 /\ res.layout.total = 8
                 /\ Len(res.payload) = 8

\* (a int4, b dropped, c int4) decoded from 8 bytes: a, null, c.
C10_Witness ==
    /\ res.kind = "record"
    /\ res.layout.cols = <<Col("int4", FALSE), Col("int4", TRUE), Col("int4", FALSE)>>
    /\ res.nulls = <<FALSE, TRUE, FALSE>>
    /\ DatumGetInt32(res.values[1]) = vals[1]
    /\ DatumGetInt32(res.values[3]) = vals[3]
    /\ vals[1] # vals[3]

(***************************************************************************)
(* C11. Every present column of the 16-byte identifier type decodes to the *)
(* 16 bytes payload[offset .. offset+15] as they are, with no byte-order    *)
(* conversion, and reads no other byte, while the 2-, 4- and 8-byte numeric *)
(* columns of the same payload come out with their bytes reversed; (id      *)
(* int4, ts int8, temp float4, uid uuid) has a total size of 32 and uid is  *)
(* payload bytes 16..31.                                                   *)
(***************************************************************************)
C11_IdentifierVerbatim ==
    res.kind = "record" =>
        LET cols == res.layout.cols
            td   == RelationGetDescr(cols)
        IN /\ \A i \in 1..Len(td) :
                 LET off == PackedSize(td, i - 1) IN
                 /\ (Present(td[i]) /\ cols[i].typ = "uuid") =>
                        /\ res.values[i] = SubSeq(res.payload, off + 1, off + 16)
                        /\ res.values[i] = vals[i]
                        /\ res.reads[i] = off..(off + 15)
                 /\ (Present(td[i]) /\ cols[i].typ \in NumericTypes) =>
                        LET w == td[i].attlen IN
                        \A k \in 1..w :
                            res.values[i][k] = res.payload[off + w + 1 - k]
           /\ (cols = ReadingSchema) =>
                 /\ res.layout.total = 32
                 /\ Len(res.payload) = 32
                 /\ res.values[4] = SubSeq(res.payload, 17, 32)

\* The reading (42, -7, 3.5, uid): uid is the last 16 bytes as sent, the
\* int4 in front of it was byte-swapped.
C11_Witness ==
    /\ res.kind = "record"
    /\ res.layout.cols = ReadingSchema
    /\ res.layout.offsets = <<0, 4, 12, 16>>
    /\ res.values[4] = Block(16, 0)
    /\ SubSeq(res.payload, 1, 4) = <<0, 0, 0, 42>>
    /\ SubSeq(res.values[1], 1, 4) = <<42, 0, 0, 0>>

(***************************************************************************)
(* C12. invalidate(t) changes the entry of t only: for every other         *)
(* relation u, whether u has an entry, and the validity, offsets and total *)
(* size of that entry, are the same after the callback as before it, also  *)
(* when it runs while a get_or_build(u) is in flight.                      *)
(***************************************************************************)
C12_InvalidateFrame ==
    [][\A t \in Rels :
          invalidate_layout_cache(t) =>
              \A u \in Rels \ {t} : CacheEntry(u)' = CacheEntry(u)]_vars

\* invalidate(1) has removed a built entry while the call for relation 2 is
\* at table_open with its entry in the table.
C12_Witness ==
    /\ pc = "open"
    /\ cur.relid = 2
    /\ hashtab[2] = cur.layout
    /\ inv[1]
    /\ hashtab[1] = 0
    /\ Len(freeList) = 1
    /\ slot[freeList[1]].is_valid
    /\ slot[freeList[1]].offsets = <<0>>

C14_NoStaleBuildSurvives ==
    (res.kind \notin {"none", "crash"} /\ inv[res.relid]) =>
        LET t == res.relid IN
        \/ ~(CacheEntry(t).present /\ CacheEntry(t).valid)
        \/ /\ catalog[t].exists
           /\ slot[hashtab[t]].tupdesc.cols = catalog[t].cols
           /\ CompleteLayout(LayoutOf(slot[hashtab[t]]))

\* A call whose entry was invalidated at table_open has built, decoded
\* and returned; the table has no entry of its relation.
C14_Witness ==
    /\ res.kind = "record"
    /\ ~res.hit
    /\ inv[res.relid]
    /\ CompleteLayout(res.layout)
    /\ ~CacheEntry(res.relid).present

(***************************************************************************)
(* C15. Staleness policy: while the cache holds a valid entry of t whose   *)
(* build completed and no invalidate(t) has been processed since, a        *)
(* get_or_build(t) returns that entry as it is, without opening the        *)
(* relation or rebuilding, whatever the catalog holds for t by then.       *)
(***************************************************************************)
C15_StalenessPolicy ==
    (res.kind \notin {"none", "crash"} /\ ~res.mustRebuild) =>
        LET t == res.relid IN
        /\ res.hit
        /\ CacheEntry(t).present /\ CacheEntry(t).valid
        /\ res.layout.cols = slot[hashtab[t]].tupdesc.cols
        /\ res.layout.offsets = CacheEntry(t).offsets
        /\ res.layout.total = CacheEntry(t).total
        /\ Len(res.layout.offsets) = Len(res.layout.cols)
        /\ res.layout.total = PackedSize(RelationGetDescr(res.layout.cols),
                                         Len(res.layout.cols))

\* The table was altered from one column to three, no invalidation was
\* processed, and the call is served the one-column layout.
C15_Witness ==
    /\ res.kind = "SizeMismatch"
    /\ ~res.mustRebuild
    /\ res.hit
    /\ res.layout.offsets = <<0>>
    /\ catalog[res.relid].exists
    /\ Len(catalog[res.relid].cols) = 3
    /\ Len(res.payload) = 4

(***************************************************************************)
(* C16. For every layout the builder accepts and every payload that passes *)
(* the size check, every byte the decoder reads lies inside the payload,   *)
(* at an index from 0 to total size - 1, whatever the width of the column: *)
(* 1 byte, more than 8 bytes, a by-reference type that is not 16 bytes     *)
(* wide, or the last column.                                               *)
(***************************************************************************)
C16_ReadsInsidePayload ==
    (res.kind = "record" /\ ~res.hit) =>
        \A i \in 1..Len(res.reads) :
            \A x \in res.reads[i] : 0 <= x /\ x < Len(res.payload)

(***************************************************************************)
(* C17. get_or_create_layout writes to and returns only the element that   *)
(* layout_cache holds under the relation's id at that moment: in the step  *)
(* that runs the build, if a field of the element the call points to is    *)
(* written or a layout is returned, that element is the relation's entry   *)
(* in the table, not one an invalidation delivered during the call has     *)
(* removed.                                                                *)
(***************************************************************************)
C17_WritesOnlyStoredEntry ==
    [][(pc = "open" /\ pc' = "idle" /\ res'.kind # "crash") =>
          LET s == cur.layout IN
          (\/ slot'[s].tupdesc.cols # slot[s].tupdesc.cols
           \/ slot'[s].offsets # slot[s].offsets
           \/ slot'[s].total_binary_size # slot[s].total_binary_size
           \/ slot'[s].is_valid # slot[s].is_valid
           \/ res'.layout # NoLayout)
              => hashtab[cur.relid] = s]_vars

(***************************************************************************)
(* C18. Long-lived allocations are released when an entry is invalidated   *)
(* or a build fails: the number of offsets arrays alive in the             *)
(* process-lifetime memory context never exceeds the number of entries the *)
(* cache holds.                                                            *)
(***************************************************************************)
C18_OffsetsReleased ==
    topOffsets <= Cardinality({r \in Rels : hashtab[r] # 0})

=============================================================================
